---- MODULE Spec2Model ----
(***************************************************************************)
(* A model of ccloud-scrape-generator.py: the discovery script that lists  *)
(* Confluent Cloud environments and resources, standardizes their labels   *)
(* and reconciles the Prometheus file_sd directory target_configs/.        *)
(*                                                                         *)
(* Python strings on which the script computes (lower, upper, replace,     *)
(* substring test, concatenation) are sequences of one-character strings.  *)
(* Opaque identifiers (resource ids, environment ids) are TLA+ strings.    *)
(* A Python dict is a function whose DOMAIN is its key set.                *)
(***************************************************************************)
EXTENDS Integers, Sequences, FiniteSets, TLC

VARIABLES
    \* ---- standardize_labels applied to one list of resources
    lbl_pc, lbl_type, lbl_input, lbl_resources,
    \* ---- successive runs of the summary and generate_sd_files on one directory
    sd_runs,        \* runs made so far
    sd_dir,         \* the output directory
    sd_before,      \* the output directory when the last run started
    sd_groups,      \* groups of the last run
    sd_same,        \* the last run had the groups of the run before it
    sd_written,     \* the files the last run wrote, as it wrote them
    sd_removed,     \* the files the last run's clean-up removed
    sd_files,       \* the listing the last run returned
    sd_summary,     \* the per-type counts the last run printed
    \* ---- get_resource_types applied to one descriptor response
    typ_pc, typ_data, typ_types,
    \* ---- one execution of the script
    pc,                       \* where the script is
    exit_code,                \* the exit code once the process has ended
    error,                    \* the fatal error the script printed
    credentials,              \* CLOUD_API_KEY and CLOUD_API_SECRET are set
    srv_envs,                 \* the environments the API has, in its order
    env_list,                 \* the list environments of fetch_environments
    env_pages,                \* the data of the pages served so far
    next_url,                 \* next_url of fetch_environments
    environments,             \* the global dict environments
    resource_types_metadata,  \* the dict get_resource_types returned
    type_idx,                 \* types the collection loop has processed
    resource_groups,          \* the dict resource_groups
    last_fetch,               \* the last fetch_resource_ids call
    skipped,                  \* a collector call got a non-200 response
    example_config,           \* prometheus_example.yml
    \* ---- one call of fetch_resource_ids
    ft_pc,
    ft_type,                  \* the argument resource_type
    ft_envs,                  \* the global dict environments
    ft_api,                   \* what the session answers, per URL
    ft_result,                \* what the call gathered, or that it raised
    \* ---- one call of generate_sd_files on a file system that may fail
    fs_pc,
    fs_dir,                   \* the output directory before the call
    fs_groups,                \* the argument resource_groups
    fs_unwritable,            \* files on which open(filename, "w") fails
    fs_unremovable,           \* files on which os.remove fails
    fs_result                 \* the call's effects, or that it raised

lblVars == <<lbl_pc, lbl_type, lbl_input, lbl_resources>>
sdVars == <<sd_runs, sd_dir, sd_before, sd_groups, sd_same, sd_written,
            sd_removed, sd_files, sd_summary>>
typVars == <<typ_pc, typ_data, typ_types>>
mainVars == <<pc, exit_code, error, credentials, srv_envs, env_list, env_pages,
              next_url, environments, resource_types_metadata, type_idx,
              resource_groups, last_fetch, skipped, example_config>>
ftVars == <<ft_pc, ft_type, ft_envs, ft_api, ft_result>>
fsVars == <<fs_pc, fs_dir, fs_groups, fs_unwritable, fs_unremovable, fs_result>>
vars == <<lblVars, sdVars, typVars, mainVars, ftVars, fsVars>>

(***************************************************************************)
(* Each specification below exercises one part of the script; the          *)
(* variables of the other parts rest at these values.                      *)
(***************************************************************************)
LblIdle ==
    /\ lbl_pc = "idle"
    /\ lbl_type = <<>>
    /\ lbl_input = <<>>
    /\ lbl_resources = <<>>

\* no fetch_resource_ids call made yet
NoFetch == [called |-> FALSE, resource_type |-> <<>>, resources |-> <<>>, requests |-> <<>>]

TypIdle ==
    /\ typ_pc = "idle"
    /\ typ_data = <<>>
    /\ typ_types = <<>>

\* no fetch_resource_ids call under study
FtIdle ==
    /\ ft_pc = "idle"
    /\ ft_type = <<>>
    /\ ft_envs = <<>>
    /\ ft_api = <<>>
    /\ ft_result = <<>>

\* no generate_sd_files call under study
FsIdle ==
    /\ fs_pc = "idle"
    /\ fs_dir = <<>>
    /\ fs_groups = <<>>
    /\ fs_unwritable = {}
    /\ fs_unremovable = {}
    /\ fs_result = <<>>

MainIdle ==
    /\ pc = "idle"
    /\ exit_code = "none"
    /\ error = "none"
    /\ credentials = TRUE
    /\ srv_envs = <<>>
    /\ env_list = <<>>
    /\ env_pages = <<>>
    /\ next_url = <<>>
    /\ environments = <<>>
    /\ resource_types_metadata = <<>>
    /\ type_idx = 0
    /\ resource_groups = <<>>
    /\ last_fetch = NoFetch
    /\ skipped = FALSE
    /\ example_config = "absent"

SdIdle ==
    /\ sd_runs = 0
    /\ sd_dir = <<>>
    /\ sd_before = <<>>
    /\ sd_groups = <<>>
    /\ sd_same = FALSE
    /\ sd_written = <<>>
    /\ sd_removed = {}
    /\ sd_files = {}
    /\ sd_summary = <<>>

(***************************************************************************)
(* Strings                                                                 *)
(***************************************************************************)
Uppers == <<"A","B","C","D","E","F","G","H","I","J","K","L","M",
            "N","O","P","Q","R","S","T","U","V","W","X","Y","Z">>
Lowers == <<"a","b","c","d","e","f","g","h","i","j","k","l","m",
            "n","o","p","q","r","s","t","u","v","w","x","y","z">>

LowerChar(c) ==
    IF \E i \in 1..26 : Uppers[i] = c
    THEN Lowers[CHOOSE i \in 1..26 : Uppers[i] = c]
    ELSE c

UpperChar(c) ==
    IF \E i \in 1..26 : Lowers[i] = c
    THEN Uppers[CHOOSE i \in 1..26 : Lowers[i] = c]
    ELSE c

\* str.lower()
lower(s) == [i \in 1..Len(s) |-> LowerChar(s[i])]

\* str.upper()
upper(s) == [i \in 1..Len(s) |-> UpperChar(s[i])]

\* str.replace(old, new) for one-character old and new
replace(s, old, new) == [i \in 1..Len(s) |-> IF s[i] = old THEN new ELSE s[i]]

\* the Python test  sub in s  on strings
contains(sub, s) ==
    \E i \in 0..(Len(s) - Len(sub)) : SubSeq(s, i + 1, i + Len(sub)) = sub

\* Python's None, distinct from every string (strings hold one-character items)
None == <<"None">>

\* dict helpers: key test, dict.get(k, default), d[k] = v
Has(d, k) == k \in DOMAIN d
Get(d, k, default) == IF k \in DOMAIN d THEN d[k] ELSE default
Put(d, k, v) == [x \in DOMAIN d \cup {k} |-> IF x = k THEN v ELSE d[x]]

(***************************************************************************)
(* String constants of the script                                          *)
(***************************************************************************)
KAFKA == <<"k","a","f","k","a">>
SCHEMA_REGISTRY == <<"s","c","h","e","m","a","_","r","e","g","i","s","t","r","y">>
KSQL == <<"k","s","q","l">>
CONNECTOR == <<"c","o","n","n","e","c","t","o","r">>
FLINK == <<"f","l","i","n","k">>

PRODUCTION == <<"p","r","o","d","u","c","t","i","o","n">>
STAGING == <<"s","t","a","g","i","n","g">>
DEVELOPMENT == <<"d","e","v","e","l","o","p","m","e","n","t">>
TEST == <<"t","e","s","t">>
OTHER_TYPE == <<"o","t","h","e","r">>
UNKNOWN == <<"u","n","k","n","o","w","n">>

(***************************************************************************)
(* standardize_labels                                                      *)
(***************************************************************************)
\* cloud_map, as the list of its (key, value) pairs
cloud_map == << <<  <<"A","W","S">>,          <<"a","w","s">> >>,
                <<  <<"G","C","P">>,          <<"g","c","p">> >>,
                <<  <<"A","Z","U","R","E">>,  <<"a","z","u","r","e">> >> >>

\* env_map, as the list of its (key, value) pairs in insertion order
env_map == << <<  <<"p","r","o","d">>,   PRODUCTION >>,
              <<  <<"p","r","d">>,       PRODUCTION >>,
              <<  PRODUCTION,            PRODUCTION >>,
              <<  <<"s","t","g">>,       STAGING >>,
              <<  STAGING,               STAGING >>,
              <<  <<"s","t","a","g","e">>, STAGING >>,
              <<  <<"d","e","v">>,       DEVELOPMENT >>,
              <<  DEVELOPMENT,           DEVELOPMENT >>,
              <<  TEST,                  TEST >>,
              <<  <<"t","s","t">>,       TEST >>,
              <<  <<"q","a">>,           TEST >> >>

\* the lookup with the value itself as default, not its lower-cased form
cloud_map_get_as_given(cloud) ==
    IF \E i \in 1..Len(cloud_map) : cloud_map[i][1] = cloud
    THEN cloud_map[CHOOSE i \in 1..Len(cloud_map) : cloud_map[i][1] = cloud][2]
    ELSE cloud

\* cloud_map.get(cloud, cloud.lower())
cloud_map_get(cloud) ==
    IF \E i \in 1..Len(cloud_map) : cloud_map[i][1] = cloud
    THEN cloud_map[CHOOSE i \in 1..Len(cloud_map) : cloud_map[i][1] = cloud][2]
    ELSE lower(cloud)

\* next((env_map[k] for k in env_map if k in env_name), "other"), scanning
\* the table from entry i on
RECURSIVE env_scan(_, _)
env_scan(env_name, i) ==
    IF i > Len(env_map) THEN OTHER_TYPE
    ELSE IF contains(env_map[i][1], env_name) THEN env_map[i][2]
    ELSE env_scan(env_name, i + 1)

\* the environment name matched as it is written, not lower-cased
env_name_as_written(resource) == Get(resource, "environment_name", <<>>)

\* resource.get("environment_name", "").lower()
env_name_lowered(resource) == lower(Get(resource, "environment_name", <<>>))

environment_type_of(resource) == env_scan(env_name_lowered(resource), 1)

\* the cloud branch of the loop body
with_cloud_provider(resource) ==
    IF Has(resource, "cloud") /\ resource["cloud"] # None
    THEN Put(resource, "cloud_provider", cloud_map_get(upper(resource["cloud"])))
    ELSE resource

\* the kafka service-tier branch of the loop body
with_service_tier(resource, resource_type) ==
    IF resource_type = KAFKA /\ Has(resource, "kind")
    THEN Put(resource, "service_tier", resource["kind"])
    ELSE resource

\* one iteration of the loop of standardize_labels
standardize_one(resource, resource_type) ==
    LET r1 == Put(resource, "component_type", resource_type)
        r2 == with_service_tier(r1, resource_type)
        r3 == with_cloud_provider(r2)
    IN  Put(r3, "environment_type", environment_type_of(r3))

standardize_labels(resources, resource_type) ==
    [i \in 1..Len(resources) |-> standardize_one(resources[i], resource_type)]

(***************************************************************************)
(* Dicts that are iterated: the list of their (key, value) items in        *)
(* insertion order                                                         *)
(***************************************************************************)
EmptyDict == <<>>

dict_keys(items) == [i \in 1..Len(items) |-> items[i][1]]

\* d[key] = value: an existing key keeps its place and takes the new value
dict_set(items, key, value) ==
    IF \E i \in 1..Len(items) : items[i][1] = key
    THEN [i \in 1..Len(items) |-> IF items[i][1] = key THEN <<key, value>> ELSE items[i]]
    ELSE Append(items, <<key, value>>)

(***************************************************************************)
(* fetch_environments                                                      *)
(***************************************************************************)
\* f"{BASE_URL}/org/v2/environments"
ENVIRONMENTS_URL == <<"/org/v2/environments">>

\* Python truthiness of a next cursor: None and "" end the loop
falsy(v) == v = None \/ v = <<>>

\* the page assigned to the list in place of extending it
environments_overwritten(collected, data) == Get(data, "data", <<>>)

\* environments.extend(data.get("data", []))
extend_environments(collected, data) == collected \o Get(data, "data", <<>>)

\* metadata = data.get("metadata", {}); next_url = metadata.get("next")
next_of(data) == Get(Get(data, "metadata", EmptyDict), "next", None)

\* {env["id"]: env["display_name"] for env in environments}
RECURSIVE environments_dict(_, _, _)
environments_dict(collected, i, acc) ==
    IF i > Len(collected) THEN acc
    ELSE environments_dict(collected, i + 1,
                           dict_set(acc, collected[i]["id"], collected[i]["display_name"]))

(***************************************************************************)
(* get_resource_types                                                      *)
(***************************************************************************)
ID == <<"i","d">>

\* "id" in label.get("key", "").lower() and label.get("exportable", False)
is_id_label(label) ==
    /\ contains(ID, lower(Get(label, "key", <<>>)))
    /\ Get(label, "exportable", FALSE) = TRUE

\* the label loop run to its end without the break: the last qualifying
\* label wins
RECURSIVE with_last_id_label(_, _, _)
with_last_id_label(metadata, labels, i) ==
    IF i > Len(labels) THEN metadata
    ELSE with_last_id_label(
            IF is_id_label(labels[i])
            THEN Put(metadata, "id_label", Get(labels[i], "key", None))
            ELSE metadata,
            labels, i + 1)

\* the label loop: the first qualifying label sets id_label and breaks
RECURSIVE with_id_label(_, _, _)
with_id_label(metadata, labels, i) ==
    IF i > Len(labels) THEN metadata
    ELSE IF is_id_label(labels[i])
         THEN Put(metadata, "id_label", Get(labels[i], "key", None))
         ELSE with_id_label(metadata, labels, i + 1)

\* the entry resource_types[resource_type] built for one descriptor
resource_type_metadata(resource) ==
    with_id_label([description |-> Get(resource, "description", <<>>),
                   labels |-> Get(resource, "labels", <<>>)],
                  Get(resource, "labels", <<>>), 1)

\* the loop over resources_data; a descriptor without 'type' is skipped
RECURSIVE resource_types_of(_, _, _)
resource_types_of(resources_data, i, acc) ==
    IF i > Len(resources_data) THEN acc
    ELSE resource_types_of(resources_data, i + 1,
            IF Has(resources_data[i], "type")
            THEN dict_set(acc, resources_data[i]["type"],
                          resource_type_metadata(resources_data[i]))
            ELSE acc)

\* the part of get_resource_types after a 200 response with body data
get_resource_types(data) == resource_types_of(Get(data, "data", <<>>), 1, EmptyDict)

(***************************************************************************)
(* The HTTP session: api maps the URL of a GET to the response the server  *)
(* gives, a record of its status_code and its decoded JSON body            *)
(***************************************************************************)
clusters_url(env_id) == <<"/cmk/v2/clusters", env_id>>
sr_url(env_id) == <<"/srcm/v3/clusters", env_id>>
ksql_url(env_id) == <<"/ksqldbcm/v2/clusters", env_id>>
connectors_url(env_id, kafka_id) ==
    <<"/connect/v1/environments", env_id, "clusters", kafka_id, "connectors">>
connector_url(env_id, kafka_id, connector_name) ==
    <<"/connect/v1/environments", env_id, "clusters", kafka_id, "connectors", connector_name>>
pools_url(env_id) == <<"/fcpm/v2/compute-pools", env_id>>
environment_url(env_id) == <<"/org/v2/environments", env_id>>
statements_url(org_id, env_id) ==
    <<"/sql/v1/organizations", org_id, "environments", env_id, "statements">>

\* what a collector has gathered: the list resources, the GETs issued so
\* far, whether a response was not 200, and whether an exception has left
\* the function
NoResources == [resources |-> <<>>, requests |-> <<>>, skipped |-> FALSE, raised |-> FALSE]

\* response = session.get(url, headers=HEADERS), noted in acc
requested(acc, api, url) ==
    [acc EXCEPT !.requests = Append(@, url),
                !.skipped = @ \/ api[url].status_code # 200]

appended(acc, new) == [acc EXCEPT !.resources = @ \o new]

\* an exception that no try of fetch_resource_ids catches
raises(acc) == [acc EXCEPT !.raised = TRUE]

\* response.json() returns: the body is JSON
parses(response) == response.valid

\* the items of a list up to the first one on which item[key] raises
\* KeyError
before_first_missing(items, key) ==
    LET missing == {k \in 1..Len(items) : ~Has(items[k], key)}
    IN  IF missing = {} THEN items
        ELSE SubSeq(items, 1, (CHOOSE k \in missing : \A j \in missing : k <= j) - 1)

(***************************************************************************)
(* fetch_kafka_clusters                                                    *)
(***************************************************************************)
\* the list returned for a response whose body is JSON: [] when the status
\* is not 200 or the body has no or an empty "data"
fetch_kafka_clusters(api, env_id) ==
    LET response == api[clusters_url(env_id)]
    IN  IF response.status_code # 200 THEN <<>>
        ELSE IF ~Has(response.json, "data") \/ Len(response.json["data"]) = 0 THEN <<>>
        ELSE response.json["data"]

\* fetch_kafka_clusters leaves by the exception of response.json()
fetch_kafka_clusters_raises(api, env_id) ==
    /\ api[clusters_url(env_id)].status_code = 200
    /\ ~parses(api[clusters_url(env_id)])

(***************************************************************************)
(* fetch_resource_ids, one branch per resource type; each *_env operator   *)
(* is one iteration of the branch's loop over environments.items()         *)
(***************************************************************************)
\* the subscripts of the kafka branch all find their key
has_kafka_fields(cluster) ==
    /\ Has(cluster, "id")
    /\ Has(cluster, "spec")
    /\ Has(cluster["spec"], "display_name")
    /\ Has(cluster["spec"], "config")
    /\ Has(cluster["spec"]["config"], "kind")
    /\ Has(cluster["spec"], "cloud")
    /\ Has(cluster["spec"], "region")

kafka_env(api, env_id, env_name, acc) ==
    LET asked == requested(acc, api, clusters_url(env_id))
        clusters == fetch_kafka_clusters(api, env_id)
    IN  IF fetch_kafka_clusters_raises(api, env_id) THEN raises(asked)
        ELSE IF \E k \in 1..Len(clusters) : ~has_kafka_fields(clusters[k]) THEN raises(asked)
        ELSE appended(asked,
                 [k \in 1..Len(clusters) |->
                    [id |-> clusters[k]["id"],
                     name |-> clusters[k]["spec"]["display_name"],
                     kind |-> clusters[k]["spec"]["config"]["kind"],
                     cloud |-> clusters[k]["spec"]["cloud"],
                     region |-> clusters[k]["spec"]["region"],
                     environment |-> env_id,
                     environment_name |-> env_name]])

schema_registry_env(api, env_id, env_name, acc) ==
    LET response == api[sr_url(env_id)]
        asked == requested(acc, api, sr_url(env_id))
        sr_clusters == before_first_missing(Get(response.json, "data", <<>>), "id")
    IN  IF response.status_code # 200 THEN asked
        ELSE IF ~parses(response) THEN asked
        ELSE appended(asked,
                 [k \in 1..Len(sr_clusters) |->
                    [id |-> sr_clusters[k]["id"],
                     name |-> Get(sr_clusters[k], "display_name", sr_clusters[k]["id"]),
                     environment |-> env_id,
                     environment_name |-> env_name,
                     cloud |-> Get(Get(sr_clusters[k], "spec", EmptyDict), "cloud", None),
                     region |-> Get(Get(sr_clusters[k], "spec", EmptyDict), "region", None)]])

\* resource_data of one ksql cluster, resources being the list so far
ksql_resource(ksql, env_id, env_name, resources) ==
    LET base == [id |-> Get(ksql, "id", "unknown-" \o ToString(Len(resources))),
                 name |-> "Unknown KSQL Cluster",
                 environment |-> env_id,
                 environment_name |-> env_name]
        spec == Get(ksql, "spec", EmptyDict)
        named == IF Has(spec, "display_name") THEN Put(base, "name", spec["display_name"]) ELSE base
        clouded == IF Has(spec, "cloud") THEN Put(named, "cloud", spec["cloud"]) ELSE named
        regioned == IF Has(spec, "region") THEN Put(clouded, "region", spec["region"]) ELSE clouded
    IN  IF Has(spec, "kafka_cluster")
        THEN Put(regioned, "kafka_cluster", Get(spec["kafka_cluster"], "id", None))
        ELSE regioned

RECURSIVE ksql_items(_, _, _, _, _)
ksql_items(ksql_clusters, k, env_id, env_name, acc) ==
    IF k > Len(ksql_clusters) THEN acc
    ELSE ksql_items(ksql_clusters, k + 1, env_id, env_name,
                    appended(acc, <<ksql_resource(ksql_clusters[k], env_id, env_name,
                                                  acc.resources)>>))

ksql_env(api, env_id, env_name, acc) ==
    LET response == api[ksql_url(env_id)]
        asked == requested(acc, api, ksql_url(env_id))
    IN  IF response.status_code # 200 THEN asked
        ELSE IF ~parses(response) THEN asked
        ELSE IF ~Has(response.json, "data") THEN asked
        ELSE ksql_items(response.json["data"], 1, env_id, env_name, asked)

\* the loop over the connector names of one Kafka cluster; an exception in
\* it is caught by the try around the loop, which ends the loop
RECURSIVE connector_details(_, _, _, _, _, _, _)
connector_details(api, connectors, n, cluster, env_id, env_name, acc) ==
    IF n > Len(connectors) THEN acc
    ELSE LET detail_url == connector_url(env_id, cluster["id"], connectors[n])
             asked == requested(acc, api, detail_url)
         IN  IF api[detail_url].status_code # 200
             THEN connector_details(api, connectors, n + 1, cluster, env_id, env_name, asked)
             ELSE IF \/ ~parses(api[detail_url])
                     \/ ~Has(cluster, "spec")
                     \/ ~Has(cluster["spec"], "display_name")
             THEN asked
             ELSE connector_details(api, connectors, n + 1, cluster, env_id, env_name,
                      appended(asked,
                        <<[id |-> connectors[n],
                           name |-> connectors[n],
                           environment |-> env_id,
                           environment_name |-> env_name,
                           cluster_id |-> cluster["id"],
                           cluster_name |-> cluster["spec"]["display_name"]]>>))

\* the loop over the Kafka clusters of one environment; cluster["id"] is
\* read outside the try
RECURSIVE connector_clusters(_, _, _, _, _, _)
connector_clusters(api, kafka_clusters, k, env_id, env_name, acc) ==
    IF k > Len(kafka_clusters) THEN acc
    ELSE IF ~Has(kafka_clusters[k], "id") THEN raises(acc)
    ELSE LET url == connectors_url(env_id, kafka_clusters[k]["id"])
             asked == requested(acc, api, url)
         IN  connector_clusters(api, kafka_clusters, k + 1, env_id, env_name,
                IF api[url].status_code # 200 THEN asked
                ELSE IF ~parses(api[url]) THEN asked
                ELSE connector_details(api, api[url].json, 1, kafka_clusters[k],
                                       env_id, env_name, asked))

connector_env(api, env_id, env_name, acc) ==
    IF fetch_kafka_clusters_raises(api, env_id)
    THEN raises(requested(acc, api, clusters_url(env_id)))
    ELSE connector_clusters(api, fetch_kafka_clusters(api, env_id), 1, env_id, env_name,
                            requested(acc, api, clusters_url(env_id)))

flink_pools_env(api, env_id, env_name, acc) ==
    LET response == api[pools_url(env_id)]
        asked == requested(acc, api, pools_url(env_id))
        compute_pools == before_first_missing(Get(response.json, "data", <<>>), "id")
    IN  IF response.status_code # 200 THEN asked
        ELSE IF ~parses(response) THEN asked
        ELSE appended(asked,
                 [k \in 1..Len(compute_pools) |->
                    [id |-> compute_pools[k]["id"],
                     name |-> Get(Get(compute_pools[k], "spec", EmptyDict), "display_name",
                                  compute_pools[k]["id"]),
                     environment |-> env_id,
                     environment_name |-> env_name,
                     cloud |-> Get(Get(compute_pools[k], "spec", EmptyDict), "cloud", None),
                     region |-> Get(Get(compute_pools[k], "spec", EmptyDict), "region", None)]])

flink_statements_env(api, org_id, env_id, env_name, acc) ==
    LET url == statements_url(org_id, env_id)
        asked == requested(acc, api, url)
        statements == before_first_missing(api[url].json, "name")
    IN  IF api[url].status_code # 200 THEN asked
        ELSE IF ~parses(api[url]) THEN asked
        ELSE appended(asked,
                 [k \in 1..Len(statements) |->
                    [id |-> statements[k]["name"],
                     name |-> statements[k]["name"],
                     environment |-> env_id,
                     environment_name |-> env_name]])

\* one iteration of a loop over environments.items()
env_step(branch, api, org_id, env_id, env_name, acc) ==
    CASE branch = "kafka" -> kafka_env(api, env_id, env_name, acc)
      [] branch = "schema_registry" -> schema_registry_env(api, env_id, env_name, acc)
      [] branch = "ksql" -> ksql_env(api, env_id, env_name, acc)
      [] branch = "connector" -> connector_env(api, env_id, env_name, acc)
      [] branch = "flink_pools" -> flink_pools_env(api, env_id, env_name, acc)
      [] branch = "flink_statements" -> flink_statements_env(api, org_id, env_id, env_name, acc)

\* for env_id, env_name in environments.items(): ..., left at once by an
\* exception
RECURSIVE over_environments(_, _, _, _, _, _)
over_environments(branch, api, org_id, envs, i, acc) ==
    IF i > Len(envs) \/ acc.raised THEN acc
    ELSE over_environments(branch, api, org_id, envs, i + 1,
                           env_step(branch, api, org_id, envs[i][1], envs[i][2], acc))

\* the lookup of the organization id on the first environment: None when
\* there is no environment, the status is not 200 or the body has no
\* org_id; response.json() is called outside any try
flink_org(api, envs, acc) ==
    IF Len(envs) = 0 THEN [org_id |-> "", acc |-> acc]
    ELSE LET url == environment_url(envs[1][1])
             asked == requested(acc, api, url)
         IN  IF api[url].status_code = 200 /\ ~parses(api[url])
             THEN [org_id |-> "", acc |-> raises(asked)]
             ELSE [org_id |-> IF api[url].status_code = 200
                              THEN Get(api[url].json, "org_id", "")
                              ELSE "",
                   acc |-> asked]

flink_branch(api, envs) ==
    LET pools == over_environments("flink_pools", api, "", envs, 1, NoResources)
        org == flink_org(api, envs, pools)
    IN  IF org.org_id # ""
        THEN over_environments("flink_statements", api, org.org_id, envs, 1, org.acc)
        ELSE org.acc

\* the type test of fetch_resource_ids made on the lower-cased type name
branch_of_any_case(resource_type) ==
    CASE lower(resource_type) = KAFKA -> "kafka"
      [] lower(resource_type) = SCHEMA_REGISTRY -> "schema_registry"
      [] lower(resource_type) = KSQL -> "ksql"
      [] lower(resource_type) = CONNECTOR -> "connector"
      [] lower(resource_type) = FLINK -> "flink"
      [] OTHER -> "not supported"

\* the if / elif chain on resource_type
branch_of(resource_type) ==
    CASE resource_type = KAFKA -> "kafka"
      [] resource_type = SCHEMA_REGISTRY -> "schema_registry"
      [] resource_type = KSQL -> "ksql"
      [] resource_type = CONNECTOR -> "connector"
      [] resource_type = FLINK -> "flink"
      [] OTHER -> "not supported"

\* fetch_resource_ids(resource_type, resource_metadata), reading the global
\* environments (envs) and the session (api)
fetch_resource_ids(resource_type, resource_metadata, envs, api) ==
    LET branch == branch_of(resource_type)
    IN  CASE branch = "not supported" -> NoResources
          [] branch = "flink" -> flink_branch(api, envs)
          [] OTHER -> over_environments(branch, api, "", envs, 1, NoResources)

(***************************************************************************)
(* Paths and the output directory                                          *)
(*                                                                         *)
(* A path is the sequence of its components; an absolute path starts with  *)
(* Root.  The output directory is a function from the names of the files   *)
(* it holds to their contents.                                             *)
(***************************************************************************)
SD_DIR == <<"t","a","r","g","e","t","_","c","o","n","f","i","g","s">>
YML == <<".","y","m","l">>
Root == <<"/">>
\* the working directory of the process, below Root
Cwd == <<"c","w","d">>

\* str.endswith
endswith(s, suffix) ==
    /\ Len(s) >= Len(suffix)
    /\ SubSeq(s, Len(s) - Len(suffix) + 1, Len(s)) = suffix

\* os.path.join(directory, f), also the f-string "{SD_DIR}/{name}"
path_join(directory, f) == <<directory, f>>

\* os.path.abspath: an absolute path is kept, a relative one is put below
\* the working directory
abspath(path) == IF Len(path) > 0 /\ path[1] = Root THEN path ELSE <<Root, Cwd>> \o path

\* os.listdir(SD_DIR)
listdir(dir) == DOMAIN dir

\* the files of the directory that os.remove(path) deletes: the operating
\* system resolves a relative path against the working directory; a path that
\* names no file raises, which the caller catches
removed_by(dir, path) ==
    {f \in DOMAIN dir : abspath(path) = abspath(path_join(SD_DIR, f))}

(***************************************************************************)
(* generate_sd_files                                                       *)
(***************************************************************************)
TELEMETRY_HOST == <<"a","p","i",".","t","e","l","e","m","e","t","r","y",".",
                    "c","o","n","f","l","u","e","n","t",".","c","l","o","u","d">>
JOB_PREFIX == <<"c","o","n","f","l","u","e","n","t","_">>
PARAM_PREFIX == <<"r","e","s","o","u","r","c","e",".">>
PARAM_SUFFIX == <<".","i","d">>

Range(s) == {s[i] : i \in 1..Len(s)}

\* the keys of a defaultdict in insertion order: the distinct items of keys
\* in the order of their first occurrence
RECURSIVE first_seen(_, _, _)
first_seen(keys, i, acc) ==
    IF i > Len(keys) THEN acc
    ELSE first_seen(keys, i + 1,
                    IF keys[i] \in Range(acc) THEN acc ELSE Append(acc, keys[i]))

\* resource.get('no_telemetry_id') is truthy
no_telemetry_id(resource) == Get(resource, "no_telemetry_id", FALSE) = TRUE

env_key(resource) == Get(resource, "environment_name", UNKNOWN)
cloud_key(resource) == Get(resource, "cloud_provider", UNKNOWN)

\* the grouping loop without its no_telemetry_id test
without_telemetry_test(resources) == resources

\* the resources the first grouping loop keeps
with_telemetry_id(resources) == SelectSeq(resources, LAMBDA r : ~no_telemetry_id(r))

\* env_resources.items(): (env_name, env_data) pairs in insertion order
env_resources(resources) ==
    LET kept == with_telemetry_id(resources)
        names == first_seen([i \in 1..Len(kept) |-> env_key(kept[i])], 1, <<>>)
    IN  [i \in 1..Len(names) |->
            <<names[i], SelectSeq(kept, LAMBDA r : env_key(r) = names[i])>>]

\* cloud_resources.items(): (cloud, cloud_data) pairs in insertion order
cloud_resources(env_data) ==
    LET clouds == first_seen([i \in 1..Len(env_data) |-> cloud_key(env_data[i])], 1, <<>>)
    IN  [i \in 1..Len(clouds) |->
            <<clouds[i], SelectSeq(env_data, LAMBDA r : cloud_key(r) = clouds[i])>>]

\* env_name.lower().replace(" ", "_").replace("-", "_")
safe_env(env_name) == replace(replace(lower(env_name), " ", "_"), "-", "_")

\* the name below SD_DIR of f"{SD_DIR}/{resource_type}_{safe_env}_{cloud}.yml"
sd_file_name(resource_type, env_name, cloud) ==
    resource_type \o <<"_">> \o safe_env(env_name) \o <<"_">> \o cloud \o YML

\* the document written to a group's file; yaml.safe_dump serializes it, and
\* two files have the same text exactly when their documents are equal
sd_config(resource_type, env_name, cloud, cloud_data) ==
    [targets |-> <<TELEMETRY_HOST>>,
     labels  |-> [job |-> JOB_PREFIX \o resource_type,
                  environment |-> env_name,
                  cloud_provider |-> cloud,
                  environment_type |-> Get(cloud_data[1], "environment_type", OTHER_TYPE)],
     params  |-> [key |-> PARAM_PREFIX \o resource_type \o PARAM_SUFFIX,
                  ids |-> [i \in 1..Len(cloud_data) |-> cloud_data[i]["id"]]]]

RECURSIVE flatten(_)
flatten(seqs) == IF seqs = <<>> THEN <<>> ELSE Head(seqs) \o flatten(Tail(seqs))

\* the writes of one environment of one resource type, in order
env_writes(resource_type, env_name, env_data) ==
    LET cr == cloud_resources(env_data)
    IN  [i \in 1..Len(cr) |->
            [name |-> sd_file_name(resource_type, env_name, cr[i][1]),
             content |-> sd_config(resource_type, env_name, cr[i][1], cr[i][2])]]

\* the writes of one resource type, in order (none for an empty list)
type_writes(resource_type, resources) ==
    LET er == env_resources(resources)
    IN  flatten([i \in 1..Len(er) |-> env_writes(resource_type, er[i][1], er[i][2])])

\* the writes of the whole generation loop, in order; resource_groups is the
\* list of the dict's (resource_type, resources) items
sd_writes(groups) ==
    flatten([i \in 1..Len(groups) |->
                type_writes(groups[i][1], groups[i][2])])

\* open(filename, "w") and the dump of each write in turn, open raising
\* OSError on the files of unwritable: the directory reached, the number of
\* writes done, and whether the exception, which nothing catches, ended
\* the loop
RECURSIVE write_all(_, _, _, _)
write_all(dir, writes, i, unwritable) ==
    IF i > Len(writes) THEN [dir |-> dir, done |-> Len(writes), raised |-> FALSE]
    ELSE IF writes[i].name \in unwritable THEN [dir |-> dir, done |-> i - 1, raised |-> TRUE]
    ELSE write_all(Put(dir, writes[i].name, writes[i].content), writes, i + 1, unwritable)

\* existing_files, listed before anything is written
existing_files(dir) ==
    {path_join(SD_DIR, f) : f \in {g \in listdir(dir) : endswith(g, YML)}}

\* new_files: full_path = os.path.abspath(filename) of every write
new_files(writes) ==
    {abspath(path_join(SD_DIR, writes[i].name)) : i \in 1..Len(writes)}

\* the set difference with its operands exchanged
files_to_remove_exchanged(existing, new) == {abspath(f) : f \in new} \ existing

\* files_to_remove = existing_files - {os.path.abspath(f) for f in new_files}
files_to_remove(existing, new) == existing \ {abspath(f) : f \in new}

\* the directory after the clean-up loop, os.remove raising on the files
\* of unremovable, which the try of the loop catches
cleaned(dir, to_remove, unremovable) ==
    LET gone == UNION {removed_by(dir, p) : p \in to_remove} \ unremovable
    IN  [f \in DOMAIN dir \ gone |-> dir[f]]

\* the returned listing [f for f in os.listdir(SD_DIR) if f.endswith(".yml")],
\* as the set of its names (os.listdir gives them in arbitrary order)
sd_listing(dir) == {f \in listdir(dir) : endswith(f, YML)}

\* generate_sd_files(resource_groups) run on directory dir, where open
\* fails on the files of unwritable and os.remove on those of unremovable;
\* raised: an exception left the function and nothing was returned
generate_sd_files(dir, groups, unwritable, unremovable) ==
    LET existing == existing_files(dir)
        writes == sd_writes(groups)
        wrote == write_all(dir, writes, 1, unwritable)
        written == wrote.dir
        new == new_files(writes)
        to_remove == files_to_remove(existing, new)
        after == cleaned(written, to_remove, unremovable)
    IN  IF wrote.raised
        THEN [dir |-> written,
              written |-> [f \in {writes[i].name : i \in 1..wrote.done} |-> written[f]],
              removed |-> {},
              sd_files |-> {},
              raised |-> TRUE]
        ELSE [dir |-> after,
              written |-> [f \in {writes[i].name : i \in 1..Len(writes)} |-> written[f]],
              removed |-> UNION {removed_by(written, p) : p \in to_remove} \ unremovable,
              sd_files |-> sd_listing(after),
              raised |-> FALSE]

\* the "Resource Summary" loop: (resource_type, len(resources)) per type
resource_summary(groups) ==
    [i \in 1..Len(groups) |->
        <<groups[i][1], Len(groups[i][2])>>]

(***************************************************************************)
(* Successive runs of the script's last phase on one output directory      *)
(***************************************************************************)
MaxRuns == 2
MaxGroupLen == 2

My_Env == <<"M","y"," ","E","n","v">>
my_env == <<"m","y","-","e","n","v">>
AWS == <<"A","W","S">>

\* what the collectors return: ids are unique, two environments may have
\* display names that differ only in case, spaces and hyphens
SdRawPool ==
    {[id |-> "a", environment_name |-> My_Env, cloud |-> AWS],
     [id |-> "b", environment_name |-> my_env, cloud |-> AWS],
     [id |-> "c", environment_name |-> My_Env],
     [id |-> "d", environment_name |-> My_Env, cloud |-> AWS, no_telemetry_id |-> TRUE]}

\* the lists of at most n distinct resources of pool
RECURSIVE lists_upto(_, _)
lists_upto(pool, n) ==
    IF n = 0 THEN {<<>>}
    ELSE LET shorter == lists_upto(pool, n - 1)
         IN  shorter \cup {Append(l, r) : l \in shorter, r \in pool}

distinct_lists(pool, n) ==
    {l \in lists_upto(pool, n) : \A i, j \in 1..Len(l) : i # j => l[i] # l[j]}

\* resource_groups as the main script builds it: one entry per discovered
\* type, each list passed through standardize_labels
SdInputs ==
    {<< <<KAFKA, standardize_labels(ks, KAFKA)>>, <<KSQL, standardize_labels(qs, KSQL)>> >> :
        ks \in distinct_lists(SdRawPool, MaxGroupLen),
        qs \in distinct_lists({r \in SdRawPool : r.id = "a"}, 1)}

old_yml == <<"o","l","d",".","y","m","l">>
notes_txt == <<"n","o","t","e","s",".","t","x","t">>
STALE == [stale |-> TRUE]

\* directories the first run may find: empty, or holding files of earlier
\* runs or of the operator
SdInitialDirs ==
    {<<>>,
     (old_yml :> STALE),
     (notes_txt :> STALE),
     (old_yml :> STALE) @@ (notes_txt :> STALE),
     (sd_file_name(KAFKA, My_Env, <<"a","w","s">>) :> STALE)}

SdInit ==
    /\ LblIdle /\ TypIdle /\ MainIdle /\ FtIdle /\ FsIdle
    /\ sd_runs = 0
    /\ sd_dir \in SdInitialDirs
    /\ sd_before = <<>>
    /\ sd_groups = <<>>
    /\ sd_same = FALSE
    /\ sd_written = <<>>
    /\ sd_removed = {}
    /\ sd_files = {}
    /\ sd_summary = <<>>

\* lines 473-501 of one execution of the script: the summary, then
\* sd_files = generate_sd_files(resource_groups), on a file system that
\* works
SdPhase(groups) ==
    LET run == generate_sd_files(sd_dir, groups, {}, {})
    IN  /\ sd_groups' = groups
        /\ sd_same' = (sd_runs > 0 /\ groups = sd_groups)
        /\ sd_summary' = resource_summary(groups)
        /\ sd_before' = sd_dir
        /\ sd_dir' = run.dir
        /\ sd_written' = run.written
        /\ sd_removed' = run.removed
        /\ sd_files' = run.sd_files
        /\ sd_runs' = sd_runs + 1

\* one more execution of the script on the same directory
SdRun ==
    /\ sd_runs < MaxRuns
    /\ \E groups \in SdInputs : SdPhase(groups)
    /\ UNCHANGED <<lblVars, typVars, ftVars, fsVars, mainVars>>

SdNext == SdRun

SpecSD == SdInit /\ [][SdNext]_vars

(***************************************************************************)
(* One call of generate_sd_files on a file system where opening a file for *)
(* writing or removing a file may fail                                     *)
(***************************************************************************)
\* the names of the files a call would write
write_names(groups) == {sd_writes(groups)[i].name : i \in 1..Len(sd_writes(groups))}

FsInit ==
    /\ LblIdle /\ SdIdle /\ TypIdle /\ MainIdle /\ FtIdle
    /\ fs_pc = "call"
    /\ fs_dir \in SdInitialDirs
    /\ fs_groups \in SdInputs
    /\ fs_unwritable = {}
    /\ fs_unremovable = {}
    /\ fs_result = <<>>

\* sd_files = generate_sd_files(resource_groups); at most one file cannot
\* be opened for writing and any of the files present cannot be removed
FsGenerate ==
    /\ fs_pc = "call"
    /\ \E unwritable \in {{}} \cup {{f} : f \in write_names(fs_groups)},
          unremovable \in SUBSET {f \in DOMAIN fs_dir : endswith(f, YML)} :
        /\ fs_unwritable' = unwritable
        /\ fs_unremovable' = unremovable
        /\ fs_result' = generate_sd_files(fs_dir, fs_groups, unwritable, unremovable)
    /\ fs_pc' = "done"
    /\ UNCHANGED <<fs_dir, fs_groups, lblVars, sdVars, typVars, mainVars, ftVars>>

FsNext == FsGenerate

SpecFS == FsInit /\ [][FsNext]_vars

(***************************************************************************)
(* standardize_labels on bounded inputs                                    *)
(***************************************************************************)
MaxLblLen == 2

PROD_east == <<"P","R","O","D","-","e","a","s","t">>
staging_2 == <<"s","t","a","g","i","n","g","-","2">>
qa_cluster == <<"q","a","-","c","l","u","s","t","e","r">>
sandbox == <<"s","a","n","d","b","o","x">>
Testing_Dev == <<"T","e","s","t","i","n","g"," ","D","e","v">>
tst_prd == <<"t","s","t","_","p","r","d">>
Stage == <<"S","t","a","g","e">>
pro_d == <<"p","r","o","-","d">>

LblEnvNames == {PROD_east, staging_2, qa_cluster, sandbox, Testing_Dev,
                tst_prd, Stage, pro_d, <<>>}

OCI == <<"O","C","I">>
Azure == <<"A","z","u","r","e">>
gcp == <<"g","c","p">>

LblClouds == {AWS, OCI, Azure, gcp}

\* resources as a collector hands them over: id, environment_name, and the
\* optional cloud (absent, None or a string) and kind
LblPool ==
    LET base == {[id |-> "r", environment_name |-> n] : n \in LblEnvNames}
                \cup {[id |-> "r"]}
        clouded == base
                   \cup {Put(b, "cloud", c) : b \in {[id |-> "r", environment_name |-> sandbox],
                                                     [id |-> "r", environment_name |-> PROD_east]},
                                              c \in LblClouds \cup {None}}
    IN  clouded \cup {Put([id |-> "r", environment_name |-> qa_cluster], "kind", "Basic")}

LblInit ==
    /\ SdIdle /\ TypIdle /\ MainIdle /\ FtIdle /\ FsIdle
    /\ lbl_pc = "input"
    /\ lbl_type \in {KAFKA, KSQL}
    /\ lbl_input = <<>>
    /\ lbl_resources = <<>>

\* the caller builds the list a collector returned
LblAddResource ==
    /\ lbl_pc = "input"
    /\ Len(lbl_input) < MaxLblLen
    /\ \E r \in LblPool : lbl_input' = Append(lbl_input, r)
    /\ UNCHANGED <<lbl_pc, lbl_type, lbl_resources, sdVars, typVars, ftVars, fsVars, mainVars>>

\* resources = standardize_labels(resources, resource_type)
LblStandardize ==
    /\ lbl_pc = "input"
    /\ lbl_pc' = "done"
    /\ lbl_resources' = standardize_labels(lbl_input, lbl_type)
    /\ UNCHANGED <<lbl_type, lbl_input, sdVars, typVars, ftVars, fsVars, mainVars>>

LblNext == LblAddResource \/ LblStandardize

SpecLabels == LblInit /\ [][LblNext]_vars

(***************************************************************************)
(* get_resource_types on bounded descriptor responses                      *)
(***************************************************************************)
MaxLabels == 2

cluster_id == <<"c","l","u","s","t","e","r","_","i","d">>
Id == <<"I","d">>
kafka_ID == <<"k","a","f","k","a",".","I","D">>
topic == <<"t","o","p","i","c">>

\* label descriptors: key and exportable, either of which may be missing
TypLabels ==
    {[key |-> cluster_id, exportable |-> TRUE],
     [key |-> Id, exportable |-> FALSE],
     [key |-> kafka_ID, exportable |-> TRUE],
     [key |-> topic, exportable |-> TRUE],
     [key |-> Id],
     [exportable |-> TRUE]}

TypLabelLists == lists_upto(TypLabels, MaxLabels)

\* a descriptor response: one kafka descriptor with any label list, alone
\* or followed by a second descriptor
TypResponses ==
    LET first == {[type |-> KAFKA, description |-> <<"K">>, labels |-> l] : l \in TypLabelLists}
        second == {[type |-> CONNECTOR],
                   [description |-> <<"no type">>,
                    labels |-> <<[key |-> cluster_id, exportable |-> TRUE]>>],
                   [type |-> KAFKA, labels |-> <<[key |-> Id, exportable |-> FALSE],
                                                 [key |-> kafka_ID, exportable |-> TRUE]>>]}
    IN  {[data |-> <<f>>] : f \in first}
        \cup {[data |-> <<f, g>>] : f \in first, g \in second}
        \cup {EmptyDict}

TypInit ==
    /\ LblIdle /\ SdIdle /\ MainIdle /\ FtIdle /\ FsIdle
    /\ typ_pc = "input"
    /\ typ_data \in TypResponses
    /\ typ_types = <<>>

\* resource_types_metadata = get_resource_types(), the descriptor call
\* answered 200 with body typ_data
TypDiscover ==
    /\ typ_pc = "input"
    /\ typ_pc' = "done"
    /\ typ_types' = get_resource_types(typ_data)
    /\ UNCHANGED <<typ_data, lblVars, sdVars, mainVars, ftVars, fsVars>>

TypNext == TypDiscover

SpecTypes == TypInit /\ [][TypNext]_vars

(***************************************************************************)
(* The Confluent Cloud API as the script meets it                          *)
(***************************************************************************)
MaxEnvs == 3
MaxPageLen == 2

prod == <<"p","r","o","d">>
REGION == <<"u","s","-","e","a","s","t","-","1">>
COMPUTE_POOL == <<"c","o","m","p","u","t","e","_","p","o","o","l">>
FLINK_STATEMENT == <<"f","l","i","n","k","_","s","t","a","t","e","m","e","n","t">>
Kafka == <<"K","a","f","k","a">>

\* the environments an organization may have
EnvPool ==
    {[id |-> "env-a", display_name |-> My_Env],
     [id |-> "env-b", display_name |-> my_env],
     [id |-> "env-c", display_name |-> prod]}

SrvEnvLists == distinct_lists(EnvPool, MaxEnvs)

\* the URL of the environments page that starts after the first o entries
page_url(o) == IF o = 0 THEN ENVIRONMENTS_URL
               ELSE <<"/org/v2/environments", "page_token", ToString(o)>>

\* the 200 bodies the server may give for a page URL: the next entries, at
\* least one and at most MaxPageLen of them, with a next link while entries
\* remain; the last page has no metadata, or a next of None or "", or links
\* to one more page, which is empty
EnvPages(all, url) ==
    LET o == CHOOSE n \in 0..Len(all) : url = page_url(n)
        left == Len(all) - o
        last == {EmptyDict, [next |-> None], [next |-> <<>>]}
    IN  IF left = 0
        THEN {EmptyDict} \cup {[data |-> <<>>, metadata |-> m] : m \in last}
        ELSE UNION {
               IF o + k < Len(all)
               THEN {[data |-> SubSeq(all, o + 1, o + k),
                      metadata |-> [next |-> page_url(o + k)]]}
               ELSE {[data |-> SubSeq(all, o + 1, o + k), metadata |-> m] :
                        m \in last \cup {[next |-> page_url(Len(all))]}}
               \cup IF o + k = Len(all) THEN {[data |-> SubSeq(all, o + 1, o + k)]} ELSE {}
             : k \in 1..(IF left < MaxPageLen THEN left ELSE MaxPageLen)}

\* descriptor responses: lists of resource types, supported and not
descriptor(resource_type) ==
    [type |-> resource_type, description |-> <<"d">>,
     labels |-> <<[key |-> cluster_id, exportable |-> TRUE]>>]

DescriptorResponses ==
    {EmptyDict}
    \cup {[data |-> <<descriptor(t)>>] :
            t \in {KAFKA, SCHEMA_REGISTRY, KSQL, CONNECTOR, FLINK, COMPUTE_POOL,
                   FLINK_STATEMENT, Kafka, <<>>}}
    \cup {[data |-> <<descriptor(KAFKA), descriptor(COMPUTE_POOL)>>],
          [data |-> <<descriptor(Kafka), descriptor(KSQL)>>]}

Failed == [status_code |-> 500, valid |-> TRUE, json |-> EmptyDict]
Ok(body) == [status_code |-> 200, valid |-> TRUE, json |-> body]
\* a 200 response whose body is not JSON
Garbled == [status_code |-> 200, valid |-> FALSE, json |-> EmptyDict]

\* what the API holds in environment env_id
cluster_of(env_id) ==
    [id |-> "lkc-" \o env_id,
     spec |-> [display_name |-> "kafka " \o env_id, config |-> [kind |-> "Basic"],
               cloud |-> AWS, region |-> REGION]]
sr_of(env_id) ==
    [id |-> "lsrc-" \o env_id, display_name |-> "registry " \o env_id,
     spec |-> [cloud |-> AWS, region |-> REGION]]
ksql_of(env_id) ==
    [id |-> "lksqlc-" \o env_id,
     spec |-> [display_name |-> "ksql " \o env_id, cloud |-> AWS, region |-> REGION,
               kafka_cluster |-> [id |-> "lkc-" \o env_id]]]
pool_of(env_id) ==
    [id |-> "lfcp-" \o env_id,
     spec |-> [display_name |-> "pool " \o env_id, cloud |-> AWS, region |-> REGION]]
ORG == "org-1"
ConnectorNames == <<"c1", "c2">>

\* the answers environment env_id may give to the GETs of one branch:
\* each a function from the URLs it answers to the responses
EnvAnswers(branch, env_id) ==
    CASE branch = "kafka" ->
           {clusters_url(env_id) :> r :
              r \in {Failed, Ok(EmptyDict), Ok([data |-> <<cluster_of(env_id)>>])}}
      [] branch = "schema_registry" ->
           {sr_url(env_id) :> r :
              r \in {Failed, Ok([data |-> <<sr_of(env_id)>>]),
                     Ok([data |-> <<[id |-> "lsrc-" \o env_id]>>])}}
      [] branch = "ksql" ->
           {ksql_url(env_id) :> r :
              r \in {Failed, Ok(EmptyDict),
                     Ok([data |-> <<[spec |-> EmptyDict], ksql_of(env_id)>>])}}
      [] branch = "connector" ->
           {clusters_url(env_id) :> r : r \in {Failed, Ok(EmptyDict)}}
           \cup {(clusters_url(env_id) :> Ok([data |-> <<cluster_of(env_id)>>]))
                 @@ (connectors_url(env_id, "lkc-" \o env_id) :> Failed)}
           \cup {(clusters_url(env_id) :> Ok([data |-> <<cluster_of(env_id)>>]))
                 @@ (connectors_url(env_id, "lkc-" \o env_id) :> Ok(ConnectorNames))
                 @@ (connector_url(env_id, "lkc-" \o env_id, "c1") :> r1)
                 @@ (connector_url(env_id, "lkc-" \o env_id, "c2") :> r2) :
                    r1 \in {Failed, Ok(EmptyDict)}, r2 \in {Failed, Ok(EmptyDict)}}
      [] branch = "flink" ->
           {(pools_url(env_id) :> r1) @@ (statements_url(ORG, env_id) :> r2) :
              r1 \in {Failed, Ok([data |-> <<pool_of(env_id)>>])},
              r2 \in {Failed, Ok(<<[name |-> "stmt-" \o env_id]>>)}}
      [] OTHER -> {<<>>}

\* every URL of environment env_id answered 200 with what the API holds
EnvAllOk(env_id) ==
    (clusters_url(env_id) :> Ok([data |-> <<cluster_of(env_id)>>]))
    @@ (sr_url(env_id) :> Ok([data |-> <<sr_of(env_id)>>]))
    @@ (ksql_url(env_id) :> Ok([data |-> <<ksql_of(env_id)>>]))
    @@ (connectors_url(env_id, "lkc-" \o env_id) :> Ok(ConnectorNames))
    @@ (connector_url(env_id, "lkc-" \o env_id, "c1") :> Ok(EmptyDict))
    @@ (connector_url(env_id, "lkc-" \o env_id, "c2") :> Ok(EmptyDict))
    @@ (pools_url(env_id) :> Ok([data |-> <<pool_of(env_id)>>]))
    @@ (environment_url(env_id) :> Ok([org_id |-> ORG]))
    @@ (statements_url(ORG, env_id) :> Ok(<<[name |-> "stmt-" \o env_id]>>))

\* the sessions fetch_resource_ids may meet for a branch: the answers of
\* the environments from the i-th on, any URL not varied answered 200
RECURSIVE Sessions(_, _, _)
Sessions(branch, envs, i) ==
    IF i > Len(envs) THEN {<<>>}
    ELSE {(a @@ EnvAllOk(envs[i][1])) @@ rest :
            a \in EnvAnswers(branch, envs[i][1]), rest \in Sessions(branch, envs, i + 1)}

\* for flink the lookup of the organization on the first environment
\* varies too
ApiChoices(resource_type, envs) ==
    LET branches == Sessions(branch_of(resource_type), envs, 1)
    IN  IF branch_of(resource_type) = "flink" /\ Len(envs) > 0
        THEN {(environment_url(envs[1][1]) :> r) @@ api :
                 api \in branches, r \in {Failed, Ok(EmptyDict), Ok([org_id |-> ORG])}}
        ELSE branches

(***************************************************************************)
(* One call of fetch_resource_ids for a supported type, the API answering  *)
(* with failures and with bodies that are not of the documented shape      *)
(***************************************************************************)
MaxFetchEnvs == 2

\* answers that are not of the documented shape: a body that is not JSON,
\* an object without the key the collector subscripts
MalformedAnswers(branch, env_id) ==
    CASE branch = "kafka" ->
           {clusters_url(env_id) :> r :
              r \in {Garbled, Ok([data |-> <<[id |-> "lkc-" \o env_id]>>])}}
      [] branch = "schema_registry" ->
           {sr_url(env_id) :> r :
              r \in {Garbled, Ok([data |-> <<[display_name |-> "no id"], sr_of(env_id)>>])}}
      [] branch = "ksql" -> {ksql_url(env_id) :> Garbled}
      [] branch = "connector" ->
           {clusters_url(env_id) :> r :
              r \in {Garbled, Ok([data |-> <<[spec |-> EmptyDict]>>])}}
           \cup {(clusters_url(env_id) :> Ok([data |-> <<[id |-> "lkc-" \o env_id]>>]))}
           \cup {(connectors_url(env_id, "lkc-" \o env_id) :> Garbled)}
           \cup {(connector_url(env_id, "lkc-" \o env_id, "c1") :> Garbled)}
      [] branch = "flink" ->
           {(pools_url(env_id) :> Garbled),
            (pools_url(env_id) :> Ok([data |-> <<[spec |-> EmptyDict], pool_of(env_id)>>])),
            (statements_url(ORG, env_id) :> Garbled),
            (statements_url(ORG, env_id) :> Ok(<<[sql |-> "s"], [name |-> "stmt-" \o env_id]>>))}
      [] OTHER -> {}

\* the sessions a call may meet: per environment a documented or a
\* malformed answer, any URL not varied answered 200
RECURSIVE FtSessions(_, _, _)
FtSessions(branch, envs, i) ==
    IF i > Len(envs) THEN {<<>>}
    ELSE {(a @@ EnvAllOk(envs[i][1])) @@ rest :
            a \in EnvAnswers(branch, envs[i][1]) \cup MalformedAnswers(branch, envs[i][1]),
            rest \in FtSessions(branch, envs, i + 1)}

FtApiChoices(resource_type, envs) ==
    LET branches == FtSessions(branch_of(resource_type), envs, 1)
    IN  IF branch_of(resource_type) = "flink" /\ Len(envs) > 0
        THEN {(environment_url(envs[1][1]) :> r) @@ api :
                 api \in branches, r \in {Failed, Garbled, Ok([org_id |-> ORG])}}
        ELSE branches

FtInit ==
    /\ LblIdle /\ SdIdle /\ TypIdle /\ MainIdle /\ FsIdle
    /\ ft_pc = "call"
    /\ ft_type \in {KAFKA, SCHEMA_REGISTRY, KSQL, CONNECTOR, FLINK}
    /\ ft_envs \in {environments_dict(l, 1, EmptyDict) :
                      l \in {e \in SrvEnvLists : Len(e) \in 1..MaxFetchEnvs}}
    /\ ft_api = <<>>
    /\ ft_result = <<>>

\* resources = fetch_resource_ids(resource_type, metadata)
FtFetch ==
    /\ ft_pc = "call"
    /\ \E api \in FtApiChoices(ft_type, ft_envs) :
        /\ ft_api' = api
        /\ ft_result' = fetch_resource_ids(ft_type, EmptyDict, ft_envs, api)
    /\ ft_pc' = "done"
    /\ UNCHANGED <<ft_type, ft_envs, lblVars, sdVars, typVars, mainVars, fsVars>>

FtNext == FtFetch

SpecFetch == FtInit /\ [][FtNext]_vars

(***************************************************************************)
(* One execution of the script                                             *)
(***************************************************************************)
Init ==
    /\ LblIdle /\ TypIdle /\ FtIdle /\ FsIdle
    /\ pc = "start"
    /\ exit_code = "none"
    /\ error = "none"
    /\ credentials \in BOOLEAN
    /\ srv_envs \in SrvEnvLists
    /\ env_list = <<>>
    /\ env_pages = <<>>
    /\ next_url = <<>>
    /\ environments = <<>>
    /\ resource_types_metadata = <<>>
    /\ type_idx = 0
    /\ resource_groups = <<>>
    /\ last_fetch = NoFetch
    /\ skipped = FALSE
    /\ example_config \in {"absent", "present"}
    /\ sd_runs = 0
    /\ sd_dir \in {<<>>, (old_yml :> STALE)}
    /\ sd_before = <<>>
    /\ sd_groups = <<>>
    /\ sd_same = FALSE
    /\ sd_written = <<>>
    /\ sd_removed = {}
    /\ sd_files = {}
    /\ sd_summary = <<>>

\* exit(1) after printing what failed
Exit1(what) ==
    /\ pc' = "exit"
    /\ exit_code' = "1"
    /\ error' = what

\* lines 10-15: the credentials test at import
CheckCredentials ==
    /\ pc = "start"
    /\ IF ~credentials
       THEN Exit1("credentials") /\ UNCHANGED next_url
       ELSE /\ pc' = "fetch_environments"
            /\ next_url' = ENVIRONMENTS_URL
            /\ UNCHANGED <<exit_code, error>>
    /\ UNCHANGED <<credentials, srv_envs, env_list, env_pages, environments,
                   resource_types_metadata, type_idx, resource_groups, last_fetch,
                   skipped, example_config, lblVars, typVars, ftVars, fsVars, sdVars>>

\* one iteration of the loop of fetch_environments answered with a status
\* that is not 200
FetchEnvironmentsFails ==
    /\ pc = "fetch_environments"
    /\ Exit1("environments")
    /\ UNCHANGED <<credentials, srv_envs, env_list, env_pages, next_url, environments,
                   resource_types_metadata, type_idx, resource_groups, last_fetch,
                   skipped, example_config, lblVars, typVars, ftVars, fsVars, sdVars>>

\* one iteration of the loop of fetch_environments answered 200, and the
\* return of the dict after the last one
FetchEnvironmentsPage ==
    /\ pc = "fetch_environments"
    /\ \E data \in EnvPages(srv_envs, next_url) :
        /\ env_list' = extend_environments(env_list, data)
        /\ env_pages' = Append(env_pages, Get(data, "data", <<>>))
        /\ next_url' = next_of(data)
        /\ IF falsy(next_of(data))
           THEN /\ environments' = environments_dict(env_list', 1, EmptyDict)
                /\ pc' = "get_resource_types"
           ELSE UNCHANGED <<environments, pc>>
    /\ UNCHANGED <<exit_code, error, credentials, srv_envs,
                   resource_types_metadata, type_idx, resource_groups, last_fetch,
                   skipped, example_config, lblVars, typVars, ftVars, fsVars, sdVars>>

\* get_resource_types treating a failed call as a scoped skip: the error
\* is printed and the run goes on with no resource type
GetResourceTypesSkips ==
    /\ pc = "get_resource_types"
    /\ pc' = "report"
    /\ error' = "resource types"
    /\ UNCHANGED <<exit_code, credentials, srv_envs, env_list, env_pages, next_url,
                   environments, resource_types_metadata, type_idx, resource_groups,
                   last_fetch, skipped, example_config, lblVars, typVars, ftVars, fsVars, sdVars>>

\* get_resource_types answered with a status that is not 200
GetResourceTypesFails ==
    /\ pc = "get_resource_types"
    /\ Exit1("resource types")
    /\ UNCHANGED <<credentials, srv_envs, env_list, env_pages, next_url, environments,
                   resource_types_metadata, type_idx, resource_groups, last_fetch,
                   skipped, example_config, lblVars, typVars, ftVars, fsVars, sdVars>>

\* get_resource_types answered 200; the locals of fetch_environments are
\* gone by now
GetResourceTypes ==
    /\ pc = "get_resource_types"
    /\ \E data \in DescriptorResponses :
        /\ resource_types_metadata' = get_resource_types(data)
        /\ pc' = IF Len(get_resource_types(data)) = 0 THEN "report" ELSE "collect"
    /\ env_list' = <<>>
    /\ env_pages' = <<>>
    /\ next_url' = <<>>
    /\ UNCHANGED <<exit_code, error, credentials, srv_envs, environments,
                   type_idx, resource_groups, last_fetch,
                   skipped, example_config, lblVars, typVars, ftVars, fsVars, sdVars>>

\* one iteration of the collection loop, lines 450-457; an exception out
\* of fetch_resource_ids is caught nowhere and ends the process with a
\* traceback and exit code 1
ProcessResourceType ==
    /\ pc = "collect"
    /\ LET resource_type == resource_types_metadata[type_idx + 1][1]
           metadata == resource_types_metadata[type_idx + 1][2]
       IN  \E api \in ApiChoices(resource_type, environments) :
            LET fetched == fetch_resource_ids(resource_type, metadata, environments, api)
            IN  IF fetched.raised
                THEN /\ Exit1("exception")
                     /\ UNCHANGED <<resource_groups, last_fetch, skipped, type_idx>>
                ELSE /\ resource_groups' =
                          dict_set(resource_groups, resource_type,
                                   standardize_labels(fetched.resources, resource_type))
                     /\ last_fetch' = [called |-> TRUE, resource_type |-> resource_type,
                                       resources |-> fetched.resources,
                                       requests |-> fetched.requests]
                     /\ skipped' = (skipped \/ fetched.skipped)
                     /\ type_idx' = type_idx + 1
                     /\ pc' = IF type_idx + 1 = Len(resource_types_metadata)
                              THEN "report" ELSE "collect"
                     /\ UNCHANGED <<exit_code, error>>
    /\ UNCHANGED <<credentials, srv_envs, env_list, env_pages, next_url,
                   environments, resource_types_metadata, example_config,
                   lblVars, typVars, ftVars, fsVars, sdVars>>

\* lines 459-549: the summaries, generate_sd_files, the example config,
\* written only when absent, and the end of the script
Report ==
    /\ pc = "report"
    /\ SdPhase(resource_groups)
    /\ example_config' = IF example_config = "absent" THEN "generated" ELSE example_config
    /\ pc' = "exit"
    /\ exit_code' = "0"
    /\ UNCHANGED <<error, credentials, srv_envs, env_list, env_pages, next_url,
                   environments, resource_types_metadata, type_idx, resource_groups,
                   last_fetch, skipped, lblVars, typVars, ftVars, fsVars>>

Next ==
    \/ CheckCredentials
    \/ FetchEnvironmentsFails
    \/ FetchEnvironmentsPage
    \/ GetResourceTypesFails
    \/ GetResourceTypes
    \/ ProcessResourceType
    \/ Report

Spec == Init /\ [][Next]_vars

(***************************************************************************)
(* Properties of the reconciler                                            *)
(***************************************************************************)
\* the .yml files of a directory, with their contents
YmlFiles(dir) == [f \in {g \in DOMAIN dir : endswith(g, YML)} |-> dir[f]]

\* the (resource_type, environment_name, cloud_provider) groups of
\* resource_groups that hold a resource not flagged no_telemetry_id
GroupKeys(groups) ==
    {<<groups[i][1], env_key(groups[i][2][j]), cloud_key(groups[i][2][j])>> :
        <<i, j>> \in {<<i, j>> \in (1..Len(groups)) \X (1..MaxGroupLen + 1) :
                        /\ j <= Len(groups[i][2])
                        /\ ~no_telemetry_id(groups[i][2][j])}}

\* C1: when generate_sd_files runs twice in a row with identical
\* resource_groups, the second run deletes no file and leaves the .yml files
\* of the output directory as the first run left them, names and contents.
C1_Idempotence ==
    (sd_runs >= 2 /\ sd_same) =>
        /\ sd_removed = {}
        /\ YmlFiles(sd_dir) = YmlFiles(sd_before)

\* C2: after any run of generate_sd_files the .yml files of the output
\* directory are exactly the files computed for the run's groups, and the
\* clean-up removes no file the run wrote.
C2_DirectoryIsCurrentSet ==
    sd_runs >= 1 =>
        /\ DOMAIN YmlFiles(sd_dir) = DOMAIN sd_written
        /\ sd_removed \cap DOMAIN sd_written = {}

\* C3: a .yml file the output directory held when a run started (such as
\* file C of a previous run) and that the run's groups do not reproduce is
\* deleted by the run and is absent from the listing the run returns.
C3_Eviction ==
    sd_runs >= 1 =>
        \A f \in DOMAIN YmlFiles(sd_before) \ DOMAIN sd_written :
            /\ f \notin DOMAIN sd_dir
            /\ f \notin sd_files

\* a second run that reproduces two of three files of the run before it
C3_Witness ==
    /\ sd_runs = 2
    /\ \E A, B, C \in DOMAIN YmlFiles(sd_before) :
        /\ A # B /\ A # C /\ B # C
        /\ {A, B} \subseteq DOMAIN sd_written
        /\ C \notin DOMAIN sd_written
        /\ C \notin DOMAIN sd_dir
        /\ C \notin sd_files

\* C4: on a run that starts with no .yml file in the output directory, two
\* distinct non-empty groups never have the same output path, and every
\* resource not flagged no_telemetry_id has its id in the params list of the
\* file of its own group and of no other file.
C4_OneFilePerGroup ==
    (sd_runs = 1 /\ DOMAIN YmlFiles(sd_before) = {}) =>
        /\ \A g1, g2 \in GroupKeys(sd_groups) :
              g1 # g2 => sd_file_name(g1[1], g1[2], g1[3]) # sd_file_name(g2[1], g2[2], g2[3])
        /\ \A i \in 1..Len(sd_groups) : \A j \in 1..Len(sd_groups[i][2]) :
              LET t == sd_groups[i][1]
                  r == sd_groups[i][2][j]
                  own == sd_file_name(t, env_key(r), cloud_key(r))
                  holds(f) == /\ sd_dir[f].params.key = PARAM_PREFIX \o t \o PARAM_SUFFIX
                              /\ r.id \in Range(sd_dir[f].params.ids)
              IN  ~no_telemetry_id(r) =>
                    /\ own \in DOMAIN sd_dir
                    /\ holds(own)
                    /\ sd_dir[own].labels.environment = env_key(r)
                    /\ sd_dir[own].labels.cloud_provider = cloud_key(r)
                    /\ \A f \in DOMAIN YmlFiles(sd_dir) \ {own} : ~holds(f)

\* C7: the id of a resource flagged no_telemetry_id is in the params list of
\* no file the run generates, a group made only of flagged resources gets no
\* file, and the summary counts flagged resources with the others.
C7_NoTelemetryIdExcludedButCounted ==
    sd_runs >= 1 =>
        \A i \in 1..Len(sd_groups) :
            LET t == sd_groups[i][1]
                rs == sd_groups[i][2]
                flagged == {j \in 1..Len(rs) : no_telemetry_id(rs[j])}
                usable == (1..Len(rs)) \ flagged
                of_type == {f \in DOMAIN sd_written :
                                sd_written[f].labels.job = JOB_PREFIX \o t}
            IN  /\ \A f \in of_type : \A j \in flagged :
                      rs[j].id \notin Range(sd_written[f].params.ids)
                /\ \A j \in flagged :
                      (\A k \in usable : <<env_key(rs[k]), cloud_key(rs[k])>>
                                            # <<env_key(rs[j]), cloud_key(rs[j])>>)
                      => \A f \in of_type :
                            <<sd_written[f].labels.environment, sd_written[f].labels.cloud_provider>>
                                # <<env_key(rs[j]), cloud_key(rs[j])>>
                /\ sd_summary[i] = <<t, Cardinality(flagged) + Cardinality(usable)>>

\* a run whose kafka list holds a flagged resource beside usable ones, and
\* a run whose kafka list holds only the flagged resource
C7_Witness ==
    /\ sd_runs >= 1
    /\ \E i \in 1..Len(sd_groups) :
        /\ \E j \in 1..Len(sd_groups[i][2]) : no_telemetry_id(sd_groups[i][2][j])
        /\ \E j \in 1..Len(sd_groups[i][2]) : ~no_telemetry_id(sd_groups[i][2][j])
        /\ \E f \in DOMAIN sd_written : sd_written[f].labels.job = JOB_PREFIX \o sd_groups[i][1]
        /\ sd_summary[i][2] = 2

(***************************************************************************)
(* Properties of standardize_labels                                        *)
(***************************************************************************)
\* the alias table of the claim, in its order, with the canonical types
C10_Aliases ==
    << <<  <<"p","r","o","d">>, PRODUCTION >>,
       <<  <<"p","r","d">>, PRODUCTION >>,
       <<  <<"p","r","o","d","u","c","t","i","o","n">>, PRODUCTION >>,
       <<  <<"s","t","g">>, STAGING >>,
       <<  <<"s","t","a","g","i","n","g">>, STAGING >>,
       <<  <<"s","t","a","g","e">>, STAGING >>,
       <<  <<"d","e","v">>, DEVELOPMENT >>,
       <<  <<"d","e","v","e","l","o","p","m","e","n","t">>, DEVELOPMENT >>,
       <<  <<"t","e","s","t">>, TEST >>,
       <<  <<"t","s","t">>, TEST >>,
       <<  <<"q","a">>, TEST >> >>

C10_Expected(name) ==
    LET lowered == lower(name)
        matching == {i \in 1..Len(C10_Aliases) : contains(C10_Aliases[i][1], lowered)}
    IN  IF matching = {} THEN OTHER_TYPE
        ELSE C10_Aliases[CHOOSE i \in matching : \A j \in matching : i <= j][2]

\* C10: environment_type is the canonical type of the first alias, in table
\* order, that is a substring of the lower-cased environment name, and
\* "other" when none is; "PROD-east" gives production, "staging-2" staging,
\* "qa-cluster" test and "sandbox" other.
C10_EnvironmentType ==
    lbl_pc = "done" =>
        /\ Len(lbl_resources) = Len(lbl_input)
        /\ \A i \in 1..Len(lbl_input) :
            LET name == Get(lbl_input[i], "environment_name", <<>>)
                type == lbl_resources[i]["environment_type"]
            IN  /\ type = C10_Expected(name)
                /\ name = PROD_east => type = PRODUCTION
                /\ name = staging_2 => type = STAGING
                /\ name = qa_cluster => type = TEST
                /\ name = sandbox => type = OTHER_TYPE

\* a list holding "PROD-east" and a name that matches two aliases
C10_Witness ==
    /\ lbl_pc = "done"
    /\ \E i, j \in 1..Len(lbl_input) :
        /\ Get(lbl_input[i], "environment_name", <<>>) = PROD_east
        /\ lbl_resources[i]["environment_type"] = PRODUCTION
        /\ Get(lbl_input[j], "environment_name", <<>>) = Testing_Dev
        /\ lbl_resources[j]["environment_type"] = DEVELOPMENT

(***************************************************************************)
(* Properties of get_resource_types                                        *)
(***************************************************************************)
\* the labels of the descriptor that sets the entry of resource_type: the
\* last descriptor of that type in the response
C9_LabelsOf(resource_type) ==
    LET data == Get(typ_data, "data", <<>>)
        of_type == {i \in 1..Len(data) : Has(data[i], "type") /\ data[i]["type"] = resource_type}
        last == CHOOSE i \in of_type : \A j \in of_type : j <= i
    IN  Get(data[last], "labels", <<>>)

C9_Qualifies(label) ==
    /\ Has(label, "exportable") /\ label["exportable"] = TRUE
    /\ Has(label, "key")
    /\ \E i \in 1..(Len(label["key"]) - 1) :
          /\ label["key"][i] \in {"i", "I"}
          /\ label["key"][i + 1] \in {"d", "D"}

\* C9: id_label of a resource type is the key of its first label, in list
\* order, that is exportable and whose key contains "id" in any case; a
\* type with no such label has no id_label and is discovered all the same;
\* labels [cluster_id exportable, Id not exportable] give cluster_id.
C9_IdLabelSelection ==
    typ_pc = "done" =>
        LET data == Get(typ_data, "data", <<>>)
        IN  /\ Range(dict_keys(typ_types))
                 = {data[i]["type"] : i \in {j \in 1..Len(data) : Has(data[j], "type")}}
            /\ \A n \in 1..Len(typ_types) :
                LET labels == C9_LabelsOf(typ_types[n][1])
                    metadata == typ_types[n][2]
                    qualifying == {i \in 1..Len(labels) : C9_Qualifies(labels[i])}
                IN  /\ qualifying = {} => ~Has(metadata, "id_label")
                    /\ qualifying # {} =>
                          /\ Has(metadata, "id_label")
                          /\ metadata["id_label"]
                               = labels[CHOOSE i \in qualifying : \A j \in qualifying : i <= j]["key"]
                    /\ labels = <<[key |-> cluster_id, exportable |-> TRUE],
                                  [key |-> Id, exportable |-> FALSE]>>
                          => metadata["id_label"] = cluster_id

\* the example of the claim, and a type without any qualifying label
C9_Witness ==
    /\ typ_pc = "done"
    /\ \E n \in 1..Len(typ_types) :
          /\ C9_LabelsOf(typ_types[n][1]) = <<[key |-> cluster_id, exportable |-> TRUE],
                                              [key |-> Id, exportable |-> FALSE]>>
          /\ typ_types[n][2]["id_label"] = cluster_id
    /\ \E n \in 1..Len(typ_types) : ~Has(typ_types[n][2], "id_label")

\* the table of the claim: provider names and their normal forms
C11_Table ==
    << <<  <<"A","W","S">>, <<"a","w","s">> >>,
       <<  <<"G","C","P">>, <<"g","c","p">> >>,
       <<  <<"A","Z","U","R","E">>, <<"a","z","u","r","e">> >> >>

C11_Expected(cloud) ==
    LET hits == {i \in 1..Len(C11_Table) : lower(C11_Table[i][1]) = lower(cloud)}
    IN  IF hits = {} THEN lower(cloud) ELSE C11_Table[CHOOSE i \in hits : TRUE][2]

\* C11: a resource with a cloud value gets cloud_provider, the table's
\* normal form when the value is AWS, GCP or AZURE in any letter case and
\* the lower-cased value otherwise ("AWS" gives "aws", "OCI" gives "oci");
\* a resource whose cloud is absent or None gets no cloud_provider.
C11_CloudProvider ==
    lbl_pc = "done" =>
        /\ Len(lbl_resources) = Len(lbl_input)
        /\ \A i \in 1..Len(lbl_input) :
            IF Has(lbl_input[i], "cloud") /\ lbl_input[i]["cloud"] # None
            THEN /\ Has(lbl_resources[i], "cloud_provider")
                 /\ lbl_resources[i]["cloud_provider"] = C11_Expected(lbl_input[i]["cloud"])
                 /\ lbl_input[i]["cloud"] = AWS =>
                        lbl_resources[i]["cloud_provider"] = <<"a","w","s">>
                 /\ lbl_input[i]["cloud"] = OCI =>
                        lbl_resources[i]["cloud_provider"] = <<"o","c","i">>
                 /\ lbl_input[i]["cloud"] = Azure =>
                        lbl_resources[i]["cloud_provider"] = <<"a","z","u","r","e">>
            ELSE ~Has(lbl_resources[i], "cloud_provider")

\* a list holding a resource of cloud "OCI" and one whose cloud is None
C11_Witness ==
    /\ lbl_pc = "done"
    /\ \E i, j \in 1..Len(lbl_input) :
        /\ Has(lbl_input[i], "cloud") /\ lbl_input[i]["cloud"] = OCI
        /\ lbl_resources[i]["cloud_provider"] = <<"o","c","i">>
        /\ Has(lbl_input[j], "cloud") /\ lbl_input[j]["cloud"] = None
        /\ ~Has(lbl_resources[j], "cloud_provider")

C6_Pagination ==
    /\ pc \in {"fetch_environments", "get_resource_types"} =>
          env_list = flatten(env_pages)
    /\ pc = "get_resource_types" =>
          /\ falsy(next_url)
          /\ env_list = srv_envs
          /\ environments = [i \in 1..Len(srv_envs) |->
                                <<srv_envs[i]["id"], srv_envs[i]["display_name"]>>]

\* three pages of one environment each
C6_Witness ==
    /\ pc = "get_resource_types"
    /\ Len(env_pages) = 3
    /\ \A i \in 1..3 : Len(env_pages[i]) = 1
    /\ Len(env_list) = 3

\* C8: fetch_resource_ids called for a type that is none of kafka,
\* schema_registry, ksql, connector and flink returns the empty list and
\* issues no HTTP request.
C8_UnsupportedType ==
    (last_fetch.called
        /\ last_fetch.resource_type \notin {KAFKA, SCHEMA_REGISTRY, KSQL, CONNECTOR, FLINK}) =>
        /\ last_fetch.resources = <<>>
        /\ last_fetch.requests = <<>>
        /\ \E i \in 1..Len(resource_groups) :
              resource_groups[i] = <<last_fetch.resource_type, <<>> >>

\* the type "Kafka" collected while the organization has environments
C8_Witness ==
    /\ last_fetch.called
    /\ last_fetch.resource_type = Kafka
    /\ Len(environments) > 0
    /\ last_fetch.resources = <<>>
    /\ last_fetch.requests = <<>>

(***************************************************************************)
(* Properties of one call of fetch_resource_ids                            *)
(***************************************************************************)
\* the request of url was answered 200 with a JSON body
C12_Succeeded(url) == ft_api[url].status_code = 200 /\ ft_api[url].valid

\* the returned list holds resource id of environment env_id
C12_Returned(env_id, id) ==
    \E k \in 1..Len(ft_result.resources) :
        /\ ft_result.resources[k]["id"] = id
        /\ ft_result.resources[k]["environment"] = env_id

\* the objects listed for environment env_id at url, when the listing
\* succeeded and every object has the keys named
C12_Listed(url, keys) ==
    LET items == Get(ft_api[url].json, "data", <<>>)
    IN  IF /\ C12_Succeeded(url)
           /\ \A k \in 1..Len(items) : \A key \in keys : Has(items[k], key)
        THEN items ELSE <<>>

\* every resource of environment env_id whose fetch succeeded is returned
C12_SiblingsKept(env_id) ==
    CASE ft_type = KAFKA ->
           LET items == C12_Listed(clusters_url(env_id), {"id", "spec"})
           IN  \A k \in 1..Len(items) : C12_Returned(env_id, items[k]["id"])
      [] ft_type = SCHEMA_REGISTRY ->
           LET items == C12_Listed(sr_url(env_id), {"id"})
           IN  \A k \in 1..Len(items) : C12_Returned(env_id, items[k]["id"])
      [] ft_type = KSQL ->
           LET items == C12_Listed(ksql_url(env_id), {"id"})
           IN  \A k \in 1..Len(items) : C12_Returned(env_id, items[k]["id"])
      [] ft_type = FLINK ->
           LET items == C12_Listed(pools_url(env_id), {"id"})
           IN  \A k \in 1..Len(items) : C12_Returned(env_id, items[k]["id"])
      [] ft_type = CONNECTOR ->
           LET clusters == C12_Listed(clusters_url(env_id), {"id", "spec"})
           IN  \A k \in 1..Len(clusters) :
                 LET kafka_id == clusters[k]["id"]
                 IN  C12_Succeeded(connectors_url(env_id, kafka_id)) =>
                       \A n \in 1..Len(ft_api[connectors_url(env_id, kafka_id)].json) :
                         LET connector_name == ft_api[connectors_url(env_id, kafka_id)].json[n]
                         IN  C12_Succeeded(connector_url(env_id, kafka_id, connector_name))
                                => C12_Returned(env_id, connector_name)

\* C12: a call of fetch_resource_ids for a supported type, whatever
\* requests fail and whatever responses are malformed, does not raise and
\* returns the resources of every environment, cluster and connector whose
\* own fetch succeeded.
C12_FailuresAreScoped ==
    ft_pc = "done" =>
        /\ ~ft_result.raised
        /\ \A i \in 1..Len(ft_envs) : C12_SiblingsKept(ft_envs[i][1])

(***************************************************************************)
(* Properties of generate_sd_files on a failing file system                *)
(***************************************************************************)
\* C13: when opening one file for writing fails, or removing a stale file
\* fails, generate_sd_files still returns the listing, every other file of
\* the run is written and every other stale file is removed.
C13_FileSystemFailuresAreScoped ==
    fs_pc = "done" =>
        /\ ~fs_result.raised
        /\ \A f \in write_names(fs_groups) \ fs_unwritable : f \in DOMAIN fs_result.written
        /\ \A f \in {g \in DOMAIN fs_dir : endswith(g, YML)} :
              (f \notin write_names(fs_groups) /\ f \notin fs_unremovable) =>
                  f \notin DOMAIN fs_result.dir
        /\ fs_result.sd_files = {g \in DOMAIN fs_result.dir : endswith(g, YML)}

====
